---- MODULE Spec2Model ----
(***************************************************************************)
(* A model of src/lib/ts/thrift.ts: the tagged value classes (TBase,       *)
(* TList, TSet, TMap, TStruct, TField, TMessage), the tag tables and the   *)
(* JSON codec of TJSONProtocol (serializeValue, deserializeValue,          *)
(* readMessage, readStruct) over an abstract transport.                    *)
(*                                                                         *)
(* Every value is a record with a kind field k: the kind of a JavaScript   *)
(* value, or the class of an object of the library.  A JavaScript string   *)
(* is a tuple of one-character strings, so that its length, its indexed    *)
(* characters and its conversions to and from numbers are computed and not *)
(* assumed.  Numbers are the naturals and NaN.                             *)
(***************************************************************************)
EXTENDS Integers, Sequences, FiniteSets, TLC

(***************************************************************************)
(* Bounds of the model.                                                    *)
(***************************************************************************)
\* longest list, set, map, struct and JSON array body that is enumerated
MaxItems == 2
\* deepest nesting of containers that is enumerated
MaxDepth == 2
\* largest field id asked of getField
MaxId == 2

(***************************************************************************)
(* JavaScript values.                                                      *)
(***************************************************************************)
Undefined == [k |-> "undefined"]
JNull == [k |-> "null"]
NaN == [k |-> "NaN"]
Bool(b) == [k |-> "boolean", v |-> b]
Num(n) == [k |-> "number", v |-> n]
Str(s) == [k |-> "string", v |-> s]
Arr(s) == [k |-> "array", v |-> s]
\* an object: its own enumerable properties <<name, value>> in for-in order
Obj(p) == [k |-> "object", v |-> p]

\* a raised exception
Throw(e) == [k |-> "throw", v |-> e]
IsThrow(r) == r.k = "throw"

TypeError == [name |-> "TypeError"]
SyntaxError == [name |-> "SyntaxError"]

\* the first raised exception of a sequence of results, evaluated in order
HasThrow(rs) == \E i \in 1..Len(rs) : IsThrow(rs[i])
FirstThrow(rs) == rs[CHOOSE i \in 1..Len(rs) : IsThrow(rs[i]) /\ \A j \in 1..(i - 1) : ~IsThrow(rs[j])]

isNull(value) == value = Undefined \/ value = JNull

typeof(value) ==
  CASE value.k = "undefined" -> "undefined"
    [] value.k = "boolean" -> "boolean"
    [] value.k \in {"number", "NaN"} -> "number"
    [] value.k = "string" -> "string"
    [] OTHER -> "object"

\* ToBoolean
Truthy(value) ==
  CASE value.k \in {"undefined", "null", "NaN"} -> FALSE
    [] value.k = "boolean" -> value.v
    [] value.k = "number" -> value.v # 0
    [] value.k = "string" -> Len(value.v) > 0
    [] OTHER -> TRUE

Digits == <<"0", "1", "2", "3", "4", "5", "6", "7", "8", "9">>
IsDigit(c) == \E d \in 1..10 : Digits[d] = c
DigitOf(c) == (CHOOSE d \in 1..10 : Digits[d] = c) - 1

\* Number.prototype.toString of a natural
RECURSIVE NumToStr(_)
NumToStr(n) == IF n < 10 THEN <<Digits[n + 1]>> ELSE NumToStr(n \div 10) \o <<Digits[(n % 10) + 1]>>

\* the value of a string of decimal digits
RECURSIVE DigitsValue(_)
DigitsValue(s) == IF Len(s) = 0 THEN 0 ELSE 10 * DigitsValue(SubSeq(s, 1, Len(s) - 1)) + DigitOf(s[Len(s)])

AllDigits(s) == \A i \in 1..Len(s) : IsDigit(s[i])

\* ToNumber of a string: "" is 0, a decimal numeral its value, the rest NaN
StrToNum(s) == IF Len(s) = 0 THEN Num(0) ELSE IF AllDigits(s) THEN Num(DigitsValue(s)) ELSE NaN

\* parseInt: the longest prefix of decimal digits, NaN when it is empty
DigitPrefix(s) == CHOOSE n \in 0..Len(s) : (\A i \in 1..n : IsDigit(s[i])) /\ (n = Len(s) \/ ~IsDigit(s[n + 1]))
parseInt(s) == IF DigitPrefix(s) = 0 THEN NaN ELSE Num(DigitsValue(SubSeq(s, 1, DigitPrefix(s))))

\* a canonical array index: the decimal numeral of a natural, no leading zero
IsIndex(s) == Len(s) > 0 /\ AllDigits(s) /\ (Len(s) = 1 \/ s[1] # "0")

s_undefined == <<"u", "n", "d", "e", "f", "i", "n", "e", "d">>
s_null == <<"n", "u", "l", "l">>
s_NaN == <<"N", "a", "N">>
s_true == <<"t", "r", "u", "e">>
s_false == <<"f", "a", "l", "s", "e">>
s_object == <<"[", "o", "b", "j", "e", "c", "t", " ", "O", "b", "j", "e", "c", "t", "]">>
s_length == <<"l", "e", "n", "g", "t", "h">>

\* ToString, as used for a property key (Array.prototype.join for an array)
RECURSIVE ToStr(_)
RECURSIVE Join(_)
ToStr(value) ==
  CASE value.k = "undefined" -> s_undefined
    [] value.k = "null" -> s_null
    [] value.k = "NaN" -> s_NaN
    [] value.k = "boolean" -> IF value.v THEN s_true ELSE s_false
    [] value.k = "number" -> NumToStr(value.v)
    [] value.k = "string" -> value.v
    [] value.k = "array" -> Join(value.v)
    [] OTHER -> s_object
Join(items) ==
  IF Len(items) = 0 THEN <<>>
  ELSE LET last == items[Len(items)]
           text == IF isNull(last) THEN <<>> ELSE ToStr(last)
       IN IF Len(items) = 1 THEN text ELSE Join(SubSeq(items, 1, Len(items) - 1)) \o <<",">> \o text

\* ToNumber
ToNumber(value) ==
  CASE value.k \in {"undefined", "NaN"} -> NaN
    [] value.k = "null" -> Num(0)
    [] value.k = "boolean" -> IF value.v THEN Num(1) ELSE Num(0)
    [] value.k = "number" -> value
    [] OTHER -> StrToNum(ToStr(value))

\* value == n for a number n (the abstract equality of != in the codec)
LooseEq(value, n) == ~isNull(value) /\ ToNumber(value) = Num(n)

\* value < n for a number n
LessThan(value, n) == ToNumber(value) # NaN /\ ToNumber(value).v < n

\* the properties of an object
HasProp(props, name) == \E i \in 1..Len(props) : props[i][1] = name
PropOf(props, name) == props[CHOOSE i \in 1..Len(props) : props[i][1] = name][2]

\* props[name] = value: overwrite in place, else add in for-in order (the
\* array indices ascending first, then the other names as inserted)
IndexKeysBefore(props, name) ==
  Cardinality({i \in 1..Len(props) : IsIndex(props[i][1]) /\ DigitsValue(props[i][1]) < DigitsValue(name)})
SetProp(props, name, value) ==
  IF HasProp(props, name)
  THEN [i \in 1..Len(props) |-> IF props[i][1] = name THEN <<name, value>> ELSE props[i]]
  ELSE IF IsIndex(name)
       THEN LET n == IndexKeysBefore(props, name)
            IN SubSeq(props, 1, n) \o <<<<name, value>>>> \o SubSeq(props, n + 1, Len(props))
       ELSE Append(props, <<name, value>>)

\* value[name] of a value that is not null or undefined
Get(value, name) ==
  CASE value.k \in {"string", "array"} ->
         IF name = s_length THEN Num(Len(value.v))
         ELSE IF IsIndex(name) /\ DigitsValue(name) < Len(value.v)
              THEN (IF value.k = "string" THEN Str(<<value.v[DigitsValue(name) + 1]>>) ELSE value.v[DigitsValue(name) + 1])
              ELSE Undefined
    [] value.k = "object" -> IF HasProp(value.v, name) THEN PropOf(value.v, name) ELSE Undefined
    [] OTHER -> Undefined

\* the names a for-in loop visits, in order
Keys(value) ==
  CASE value.k \in {"string", "array"} -> [i \in 1..Len(value.v) |-> NumToStr(i - 1)]
    [] value.k = "object" -> [i \in 1..Len(value.v) |-> value.v[i][1]]
    [] OTHER -> <<>>

(***************************************************************************)
(* The enumerations.                                                       *)
(***************************************************************************)
TType_STOP == 0
TType_VOID == 1
TType_BOOL == 2
TType_BYTE == 3
TType_I08 == 3
TType_DOUBLE == 4
TType_I16 == 6
TType_I32 == 8
TType_I64 == 10
TType_STRING == 11
TType_UTF7 == 11
TType_STRUCT == 12
TType_MAP == 13
TType_SET == 14
TType_LIST == 15
TType_UTF8 == 16
TType_UTF16 == 17

INVALID_DATA == 1
BAD_VERSION == 4

VERSION == 1

TProtocolException(code) == [name |-> "TProtocolException", code |-> code]

\* a protocol failure of the given kind
IsProtocolFailure(r, code) == IsThrow(r) /\ r.v = TProtocolException(code)

(***************************************************************************)
(* The tagged values.  valueType is a field of TBase and a getter of the   *)
(* four container classes.                                                 *)
(***************************************************************************)
TBase(valueType, value) == [k |-> "TBase", valueType |-> valueType, value |-> value]
TList(itemType, items) == [k |-> "TList", itemType |-> itemType, items |-> items]
TMap(keyType, itemType, items) == [k |-> "TMap", keyType |-> keyType, itemType |-> itemType, items |-> items]
TMapEntry(key, value) == [key |-> key, value |-> value]
TSet(itemType, items) == [k |-> "TSet", itemType |-> itemType, items |-> items]
\* fields: the properties <<id as a string, TField>> of the fields object
TStruct(fields) == [k |-> "TStruct", fields |-> fields]
TField(fieldType, value) == [k |-> "TField", fieldType |-> fieldType, value |-> value]
TMessage(name, messageType, seqid, value) == [k |-> "TMessage", name |-> name, messageType |-> messageType, seqid |-> seqid, value |-> value]

valueTypeOf(value) ==
  CASE value.k = "TBase" -> value.valueType
    [] value.k = "TList" -> TType_LIST
    [] value.k = "TMap" -> TType_MAP
    [] value.k = "TSet" -> TType_SET
    [] value.k = "TStruct" -> TType_STRUCT

AccessorNames == {"booleanValue", "numberValue", "stringValue", "listValue", "mapValue", "setValue", "structValue"}

NumberTypes == {TType_BYTE, TType_I08, TType_I16, TType_I32, TType_I64, TType_DOUBLE}
StringTypes == {TType_STRING, TType_UTF7, TType_UTF8, TType_UTF16}

\* TBaseGet with the case of I64 left out of numberValue
TBaseGetNoI64(base, accessor) ==
  CASE accessor = "booleanValue" ->
         IF base.valueType = TType_BOOL THEN base.value ELSE Throw(TProtocolException(INVALID_DATA))
    [] accessor = "numberValue" ->
         IF base.valueType \in NumberTypes \ {TType_I64} THEN base.value ELSE Throw(TProtocolException(INVALID_DATA))
    [] accessor = "stringValue" ->
         IF base.valueType \in StringTypes THEN base.value ELSE Throw(TProtocolException(INVALID_DATA))
    [] OTHER -> Throw(TProtocolException(INVALID_DATA))

\* the getters of TBase
TBaseGet(base, accessor) ==
  CASE accessor = "booleanValue" ->
         IF base.valueType = TType_BOOL THEN base.value ELSE Throw(TProtocolException(INVALID_DATA))
    [] accessor = "numberValue" ->
         IF base.valueType \in NumberTypes THEN base.value ELSE Throw(TProtocolException(INVALID_DATA))
    [] accessor = "stringValue" ->
         IF base.valueType \in StringTypes THEN base.value ELSE Throw(TProtocolException(INVALID_DATA))
    [] OTHER -> Throw(TProtocolException(INVALID_DATA))

\* the getters of TList, TMap, TSet and TStruct: one returns this
TListGet(list, accessor) == IF accessor = "listValue" THEN list ELSE Throw(TProtocolException(INVALID_DATA))
TMapGet(map, accessor) == IF accessor = "mapValue" THEN map ELSE Throw(TProtocolException(INVALID_DATA))
TSetGet(set, accessor) == IF accessor = "setValue" THEN set ELSE Throw(TProtocolException(INVALID_DATA))
TStructGet(struct, accessor) == IF accessor = "structValue" THEN struct ELSE Throw(TProtocolException(INVALID_DATA))

\* value[accessor] by the class of value
Accessor(value, accessor) ==
  CASE value.k = "TBase" -> TBaseGet(value, accessor)
    [] value.k = "TList" -> TListGet(value, accessor)
    [] value.k = "TMap" -> TMapGet(value, accessor)
    [] value.k = "TSet" -> TSetGet(value, accessor)
    [] value.k = "TStruct" -> TStructGet(value, accessor)

\* getField without the comparison of the field type
getFieldAnyType(struct, id, fieldType) ==
  LET field == Get(Obj(struct.fields), NumToStr(id))
  IN IF ~isNull(field) THEN field ELSE JNull

\* TStruct.getField: this.fields[id] && this.fields[id].fieldType === fieldType
getField(struct, id, fieldType) ==
  LET field == Get(Obj(struct.fields), NumToStr(id))
  IN IF ~isNull(field) /\ field.fieldType = fieldType THEN field ELSE JNull

(***************************************************************************)
(* The tag tables of TJSONProtocol.                                        *)
(***************************************************************************)
s_tf == <<"t", "f">>
s_i8 == <<"i", "8">>
s_i16 == <<"i", "1", "6">>
s_i32 == <<"i", "3", "2">>
s_i64 == <<"i", "6", "4">>
s_dbl == <<"d", "b", "l">>
s_str == <<"s", "t", "r">>
s_lst == <<"l", "s", "t">>
s_map == <<"m", "a", "p">>
s_set == <<"s", "e", "t">>
s_rec == <<"r", "e", "c">>

\* type is a number or undefined
typeString(type) ==
  CASE type = Num(TType_BOOL) -> Str(s_tf)
    [] type = Num(TType_I08) -> Str(s_i8)
    [] type = Num(TType_I16) -> Str(s_i16)
    [] type = Num(TType_I32) -> Str(s_i32)
    [] type = Num(TType_I64) -> Str(s_i64)
    [] type = Num(TType_DOUBLE) -> Str(s_dbl)
    [] type = Num(TType_STRING) -> Str(s_str)
    [] type = Num(TType_LIST) -> Str(s_lst)
    [] type = Num(TType_MAP) -> Str(s_map)
    [] type = Num(TType_SET) -> Str(s_set)
    [] type = Num(TType_STRUCT) -> Str(s_rec)
    [] OTHER -> Throw(TProtocolException(INVALID_DATA))

\* typeOfString with the results of 'str' and 'dbl' exchanged
typeOfStringSwapped(type) ==
  CASE type = Str(s_tf) -> Num(TType_BOOL)
    [] type = Str(s_i8) -> Num(TType_I08)
    [] type = Str(s_i16) -> Num(TType_I16)
    [] type = Str(s_i32) -> Num(TType_I32)
    [] type = Str(s_i64) -> Num(TType_I64)
    [] type = Str(s_str) -> Num(TType_DOUBLE)
    [] type = Str(s_dbl) -> Num(TType_STRING)
    [] type = Str(s_lst) -> Num(TType_LIST)
    [] type = Str(s_map) -> Num(TType_MAP)
    [] type = Str(s_set) -> Num(TType_SET)
    [] type = Str(s_rec) -> Num(TType_STRUCT)
    [] OTHER -> Throw(TProtocolException(INVALID_DATA))

\* type is any JavaScript value; the switch compares with ===
typeOfString(type) ==
  CASE type = Str(s_tf) -> Num(TType_BOOL)
    [] type = Str(s_i8) -> Num(TType_I08)
    [] type = Str(s_i16) -> Num(TType_I16)
    [] type = Str(s_i32) -> Num(TType_I32)
    [] type = Str(s_i64) -> Num(TType_I64)
    [] type = Str(s_str) -> Num(TType_STRING)
    [] type = Str(s_dbl) -> Num(TType_DOUBLE)
    [] type = Str(s_lst) -> Num(TType_LIST)
    [] type = Str(s_map) -> Num(TType_MAP)
    [] type = Str(s_set) -> Num(TType_SET)
    [] type = Str(s_rec) -> Num(TType_STRUCT)
    [] OTHER -> Throw(TProtocolException(INVALID_DATA))

(***************************************************************************)
(* TJSONProtocol.serializeValue.  A result is a JSON-compatible value or a *)
(* raised exception; inside a loop the first exception raised ends it.     *)
(***************************************************************************)
BoolToJson(base) ==
  IF isNull(base.value) THEN JNull
  ELSE IF typeof(base.value) = "boolean" THEN (IF base.value.v THEN Num(1) ELSE Num(0))
  ELSE Throw(TProtocolException(INVALID_DATA))

\* NumberToJson without the isNaN check
NumberToJsonNoNaN(base) ==
  IF isNull(base.value) THEN JNull
  ELSE IF typeof(base.value) = "number" THEN base.value
  ELSE Throw(TProtocolException(INVALID_DATA))

NumberToJson(base) ==
  IF isNull(base.value) THEN JNull
  ELSE IF typeof(base.value) = "number"
       THEN (IF base.value = NaN THEN Throw(TProtocolException(INVALID_DATA)) ELSE base.value)
  ELSE Throw(TProtocolException(INVALID_DATA))

StringToJson(base) ==
  IF isNull(base.value) THEN JNull
  ELSE IF typeof(base.value) = "string" THEN base.value
  ELSE Throw(TProtocolException(INVALID_DATA))

RECURSIVE serializeValue(_)
RECURSIVE MapToProps(_, _)
RECURSIVE FieldsToProps(_, _)

\* [tag, length, item...] of a list or a set
ItemsToJson(itemType, items) ==
  LET tag == typeString(Num(itemType))
      data == [i \in 1..Len(items) |-> serializeValue(items[i])]
  IN IF IsThrow(tag) THEN tag
     ELSE IF HasThrow(data) THEN FirstThrow(data)
     ELSE Arr(<<tag, Num(Len(items))>> \o data)

\* data2 after the first n entries: data2[serialize(key)] = serialize(value)
MapToProps(items, n) ==
  IF n = 0 THEN Obj(<<>>)
  ELSE LET data2 == MapToProps(items, n - 1)
           key == serializeValue(items[n].key)
           val == serializeValue(items[n].value)
       IN IF IsThrow(data2) THEN data2
          ELSE IF IsThrow(key) THEN key
          ELSE IF IsThrow(val) THEN val
          ELSE Obj(SetProp(data2.v, ToStr(key), val))

MapToJson(map) ==
  LET data2 == MapToProps(map.items, Len(map.items))
      keyTag == typeString(Num(map.keyType))
      itemTag == typeString(Num(map.itemType))
  IN IF IsThrow(data2) THEN data2
     ELSE IF IsThrow(keyTag) THEN keyTag
     ELSE IF IsThrow(itemTag) THEN itemTag
     ELSE Arr(<<keyTag, itemTag, Num(Len(map.items)), data2>>)

\* data after the first n fields: data[id] = {typeString(fieldType): serialize(value)}
FieldsToProps(fields, n) ==
  IF n = 0 THEN Obj(<<>>)
  ELSE LET data == FieldsToProps(fields, n - 1)
           id == fields[n][1]
           field == fields[n][2]
           tag == typeString(Num(field.fieldType))
           val == serializeValue(field.value)
       IN IF IsThrow(data) THEN data
          ELSE IF IsThrow(tag) THEN tag
          ELSE IF IsThrow(val) THEN val
          ELSE Obj(SetProp(data.v, id, Obj(<<<<tag.v, val>>>>)))

StructToJson(struct) == FieldsToProps(struct.fields, Len(struct.fields))

serializeValue(value) ==
  IF isNull(value) THEN JNull
  ELSE LET valueType == valueTypeOf(value)
       IN CASE valueType = TType_BOOL -> BoolToJson(value)
            [] valueType \in NumberTypes -> NumberToJson(value)
            [] valueType \in StringTypes -> StringToJson(value)
            [] valueType = TType_LIST -> ItemsToJson(value.itemType, value.items)
            [] valueType = TType_MAP -> MapToJson(value)
            [] valueType = TType_SET -> ItemsToJson(value.itemType, value.items)
            [] valueType = TType_STRUCT -> StructToJson(value)
            [] OTHER -> Throw(TProtocolException(INVALID_DATA))

(***************************************************************************)
(* TJSONProtocol.deserializeValue.                                         *)
(***************************************************************************)
\* new TBase(valueType) leaves value undefined
BoolOfJson(valueType, value) ==
  IF isNull(value) THEN TBase(valueType, Undefined) ELSE TBase(valueType, Bool(Truthy(value)))

NumberOfJson(valueType, value) ==
  IF isNull(value) THEN TBase(valueType, Undefined)
  ELSE IF typeof(value) = "number" THEN TBase(valueType, value)
  ELSE Throw(TProtocolException(INVALID_DATA))

StringOfJson(valueType, value) ==
  IF isNull(value) THEN TBase(valueType, Undefined)
  ELSE IF typeof(value) = "string" THEN TBase(valueType, value)
  ELSE Throw(TProtocolException(INVALID_DATA))

\* items.length != size
SizeMismatch(n, size) == ~LooseEq(size, n)

RECURSIVE deserializeValue(_, _)
RECURSIVE FieldsOfJson(_, _)
RECURSIVE InnerOfJson(_, _, _, _)

\* the items of a list or set array; shift() exists on arrays only
ItemsOfJson(list) ==
  IF ~Truthy(list) \/ LessThan(Get(list, s_length), 2) THEN Throw(TProtocolException(INVALID_DATA))
  ELSE IF list.k # "array" THEN Throw(TypeError)
  ELSE LET itemType == typeOfString(list.v[1])
           size == list.v[2]
           data == SubSeq(list.v, 3, Len(list.v))
           items == [i \in 1..Len(data) |-> deserializeValue(itemType.v, data[i])]
       IN IF IsThrow(itemType) THEN itemType
          ELSE IF HasThrow(items) THEN FirstThrow(items)
          ELSE IF SizeMismatch(Len(items), size) THEN Throw(TProtocolException(INVALID_DATA))
          ELSE [k |-> "items", itemType |-> itemType.v, items |-> items]

ListOfJson(value) ==
  LET r == ItemsOfJson(value) IN IF IsThrow(r) THEN r ELSE TList(r.itemType, r.items)

SetOfJson(value) ==
  LET r == ItemsOfJson(value) IN IF IsThrow(r) THEN r ELSE TSet(r.itemType, r.items)

\* the key decoded from a property name with the declared key type
KeyOfJson(keyType, key) == deserializeValue(keyType, Str(key))

MapOfJson(map) ==
  IF ~Truthy(map) \/ ~LooseEq(Get(map, s_length), 4) THEN Throw(TProtocolException(INVALID_DATA))
  ELSE IF map.k # "array" THEN Throw(TypeError)
  ELSE LET keyType == typeOfString(map.v[1])
           itemType == typeOfString(map.v[2])
           size == map.v[3]
           data == map.v[4]
           names == Keys(data)
           keys == [i \in 1..Len(names) |-> KeyOfJson(keyType.v, names[i])]
           vals == [i \in 1..Len(names) |-> deserializeValue(itemType.v, Get(data, names[i]))]
           both == [i \in 1..(2 * Len(names)) |-> IF i % 2 = 1 THEN keys[(i + 1) \div 2] ELSE vals[i \div 2]]
       IN IF IsThrow(keyType) THEN keyType
          ELSE IF IsThrow(itemType) THEN itemType
          ELSE IF HasThrow(both) THEN FirstThrow(both)
          ELSE IF SizeMismatch(Len(names), size) THEN Throw(TProtocolException(INVALID_DATA))
          ELSE TMap(keyType.v, itemType.v, [i \in 1..Len(names) |-> TMapEntry(keys[i], vals[i])])

\* fields after the first n names of struct[id]
InnerOfJson(inner, id, n, fields) ==
  IF n = 0 THEN fields
  ELSE LET sofar == InnerOfJson(inner, id, n - 1, fields)
           type == Keys(inner)[n]
           fieldType == typeOfString(Str(type))
           val == deserializeValue(fieldType.v, Get(inner, type))
       IN IF IsThrow(sofar) THEN sofar
          ELSE IF IsThrow(fieldType) THEN fieldType
          ELSE IF IsThrow(val) THEN val
          ELSE Obj(SetProp(sofar.v, ToStr(parseInt(id)), TField(fieldType.v, val)))

\* fields after the first n names of struct
FieldsOfJson(struct, n) ==
  IF n = 0 THEN Obj(<<>>)
  ELSE LET sofar == FieldsOfJson(struct, n - 1)
           id == Keys(struct)[n]
           inner == Get(struct, id)
       IN IF IsThrow(sofar) THEN sofar
          ELSE InnerOfJson(inner, id, Len(Keys(inner)), sofar)

\* the check that the input of a struct is an object: if (!struct)
StructExpected(struct) == Truthy(struct)

StructOfJson(struct) ==
  IF ~StructExpected(struct) THEN Throw(TProtocolException(INVALID_DATA))
  ELSE LET fields == FieldsOfJson(struct, Len(Keys(struct)))
       IN IF IsThrow(fields) THEN fields ELSE TStruct(fields.v)

deserializeValue(valueType, value) ==
  CASE valueType = TType_BOOL -> BoolOfJson(valueType, value)
    [] valueType \in NumberTypes -> NumberOfJson(valueType, value)
    [] valueType \in StringTypes -> StringOfJson(valueType, value)
    [] valueType = TType_LIST -> ListOfJson(value)
    [] valueType = TType_MAP -> MapOfJson(value)
    [] valueType = TType_SET -> SetOfJson(value)
    [] valueType = TType_STRUCT -> StructOfJson(value)
    [] OTHER -> Throw(TProtocolException(INVALID_DATA))

(***************************************************************************)
(* JSON text.  A text is modelled by the document it denotes, or is not    *)
(* JSON at all; JSON.parse yields the document or raises a SyntaxError.    *)
(***************************************************************************)
Text(doc) == [k |-> "text", v |-> doc]
Garbage == [k |-> "garbage"]
NoText == [k |-> "none"]

JSONParse(text) == IF text.k = "text" THEN text.v ELSE Throw(SyntaxError)

(***************************************************************************)
(* TJSONProtocol.readMessage and readStruct: the callback run on the text  *)
(* that transport.read() yields.                                           *)
(***************************************************************************)
\* the check of the message format: if (!data || data.length != 5)
IllegalFormat(data) == ~Truthy(data) \/ ~LooseEq(Get(data, s_length), 5)

\* the check of the version: if (version != TJSONProtocol.VERSION)
BadVersion(version) == ~LooseEq(version, VERSION)

readMessageThen(text) ==
  LET data == JSONParse(text)
      version == Get(data, <<"0">>)
      name == Get(data, <<"1">>)
      messageType == Get(data, <<"2">>)
      seqid == Get(data, <<"3">>)
      value == Get(data, <<"4">>)
      struct == deserializeValue(TType_STRUCT, value)
  IN IF IsThrow(data) THEN data
     ELSE IF IllegalFormat(data) THEN Throw(TProtocolException(INVALID_DATA))
     ELSE IF BadVersion(version) THEN Throw(TProtocolException(BAD_VERSION))
     ELSE IF IsThrow(struct) THEN struct
     ELSE TMessage(name, messageType, seqid, struct)

readStructThen(text) ==
  LET data == JSONParse(text)
  IN IF IsThrow(data) THEN data
     ELSE IF ~Truthy(data) THEN Throw(TProtocolException(INVALID_DATA))
     ELSE deserializeValue(TType_STRUCT, data)

(***************************************************************************)
(* TJSONProtocol.writeMessage and writeStruct: the structure that is built *)
(* and the text JSON.stringify makes of it.                                *)
(***************************************************************************)
TMessageType_CALL == 1
TMessageType_ONEWAY == 4

TTransportExceptionType_UNKNOWN == 0
TTransportException(code) == [name |-> "TTransportException", code |-> code]

\* JSON.stringify of a value inside an array or an object: NaN and undefined
\* have no JSON and become null in an array; a property whose value is
\* undefined is left out
RECURSIVE Stringified(_)
StringifiedProps(props) ==
  LET kept == SelectSeq(props, LAMBDA p : p[2] # Undefined)
  IN [i \in 1..Len(kept) |-> <<kept[i][1], Stringified(kept[i][2])>>]
Stringified(data) ==
  CASE data = Undefined \/ data = NaN -> JNull
    [] data.k = "array" -> Arr([i \in 1..Len(data.v) |-> Stringified(data.v[i])])
    [] data.k = "object" -> Obj(StringifiedProps(data.v))
    [] OTHER -> data

\* the text of data, as the document JSON.parse makes of it again
JSONStringify(data) == Text(Stringified(data))

\* the array writeMessage builds, or the exception serializeValue raises
writeMessage(message) ==
  LET payload == serializeValue(message.value)
  IN IF IsThrow(payload) THEN payload
     ELSE Arr(<<Num(VERSION), message.name, message.messageType, message.seqid, payload>>)

\* the object writeStruct builds, or the exception raised inside its loop
writeStruct(struct) == FieldsToProps(struct.fields, Len(struct.fields))

(***************************************************************************)
(* The inputs that are enumerated: the tagged values an application builds *)
(* and the texts a transport yields.                                       *)
(***************************************************************************)
SeqsUpTo(S, n) == UNION {[1..m -> S] : m \in 0..n}

s_a == <<"a">>
s_1 == <<"1">>

ScalarTypes == {TType_BOOL, TType_BYTE, TType_I16, TType_I32, TType_I64, TType_DOUBLE, TType_STRING, TType_UTF8, TType_UTF16}
Payloads == {Undefined, JNull, Bool(TRUE), Bool(FALSE), Num(0), Num(1), NaN, Str(s_a), Str(s_1)}
Scalars == {TBase(t, p) : t \in ScalarTypes \cup {TType_STOP, TType_VOID}, p \in Payloads}

\* the children of the containers: absent, well typed, unset, NaN, ill typed
Leaves ==
  {JNull,
   TBase(TType_BOOL, Bool(TRUE)), TBase(TType_BOOL, Bool(FALSE)),
   TBase(TType_I32, Num(1)), TBase(TType_I32, Undefined), TBase(TType_DOUBLE, NaN),
   TBase(TType_STRING, Str(s_a)), TBase(TType_UTF8, Str(s_a)), TBase(TType_I32, Str(s_a))}
ItemTypes == {TType_BOOL, TType_I32, TType_STRING, TType_UTF8, TType_STRUCT}

MapKeys == {TBase(TType_BOOL, Bool(FALSE)), TBase(TType_I32, Num(1)), TBase(TType_STRING, Str(s_a)), TBase(TType_STRING, Str(s_1))}
MapValues == {TBase(TType_I32, Num(1)), JNull}
MapEntries == {TMapEntry(key, val) : key \in MapKeys, val \in MapValues}
KeyTypes == {TType_BOOL, TType_I32, TType_STRING}
ValueTypes == {TType_I32, TType_STRING}

\* the declared type of a field: that of its value, or I32
TypeOfLeaf(v) == IF v = JNull THEN TType_I32 ELSE valueTypeOf(v)
FieldsOfLeaves == {TField(TypeOfLeaf(v), v) : v \in Leaves} \cup {TField(TType_I32, TBase(TType_STRING, Str(s_a)))}

\* the fields objects with ids among 1..n, in the order of a fields object
RECURSIVE FieldObjects(_, _)
FieldObjects(n, pool) ==
  IF n = 0 THEN {<<>>}
  ELSE LET less == FieldObjects(n - 1, pool)
       IN less \cup {Append(fs, <<NumToStr(n), f>>) : fs \in less, f \in pool}

Lists(n, pool) == {TList(t, items) : t \in ItemTypes, items \in SeqsUpTo(pool, n)}
Sets(n, pool) == {TSet(t, items) : t \in ItemTypes, items \in SeqsUpTo(pool, n)}
Maps(n, pool) == {TMap(kt, vt, items) : kt \in KeyTypes, vt \in ValueTypes, items \in SeqsUpTo(pool, n)}
Structs(n, pool) == {TStruct(fs) : fs \in FieldObjects(n, pool)}

Flat(n) == Lists(n, Leaves) \cup Sets(n, Leaves) \cup Maps(n, MapEntries) \cup Structs(n, FieldsOfLeaves)

\* a container around one child container
Wrap(c) ==
  {TList(valueTypeOf(c), <<c>>),
   TSet(valueTypeOf(c), <<c>>),
   TMap(TType_STRING, valueTypeOf(c), <<TMapEntry(TBase(TType_STRING, Str(s_a)), c)>>),
   TMap(valueTypeOf(c), TType_I32, <<TMapEntry(c, TBase(TType_I32, Num(1)))>>),
   TStruct(<<<<s_1, TField(valueTypeOf(c), c)>>>>)}

\* the containers nested d deep, around the containers of at most one child
RECURSIVE Nested(_)
Nested(d) == IF d <= 1 THEN Flat(1) ELSE UNION {Wrap(c) : c \in Nested(d - 1)}

Values == Scalars \cup Flat(MaxItems) \cup UNION {Nested(d) : d \in 2..MaxDepth}

s_empty == <<>>
s_0 == <<"0">>
s_2 == <<"2">>
s_01 == <<"0", "1">>
s_x == <<"x">>
s_ab == <<"a", "b">>
s_abcd == <<"a", "b", "c", "d">>
s_hello == <<"h", "e", "l", "l", "o">>
s_1abcd == <<"1", "a", "b", "c", "d">>
s_ping == <<"p", "i", "n", "g">>

\* JSON documents that are no array and no object
ScalarDocs ==
  {JNull, Bool(TRUE), Bool(FALSE), Num(0), Num(1), Num(2), Num(5),
   Str(s_empty), Str(s_a), Str(s_1), Str(s_ab), Str(s_abcd), Str(s_hello), Str(s_1abcd)}

\* the items of an array and the values of an entry object
ItemDocs == {JNull, Bool(TRUE), Num(1), Str(s_a)}
\* wire tag slots: tags of the table, an unknown string, a number
TagDocs == {Str(s_i32), Str(s_tf), Str(s_str), Str(s_x), Num(TType_I32)}
\* count slots: the numbers up to one more than the longest body, and others
CountDocs == {Num(n) : n \in 0..(MaxItems + 1)} \cup {Str(s_2), Str(s_empty), Bool(TRUE), JNull}

ListDocs ==
  {Arr(<<>>), Arr(<<Str(s_i32)>>)}
  \cup {Arr(<<t, c>> \o items) : t \in TagDocs, c \in CountDocs, items \in SeqsUpTo(ItemDocs, MaxItems)}

\* the objects of at most n properties named among names, in for-in order
RECURSIVE Objects(_, _, _)
Objects(n, names, vals) ==
  IF n = 0 THEN {<<>>}
  ELSE LET less == Objects(n - 1, names, vals)
       IN less \cup {SetProp(ps, name, v) : ps \in less, name \in names, v \in vals}

EntryDocs == {Obj(ps) : ps \in Objects(MaxItems, {s_a, s_1, s_0}, ItemDocs)} \cup {JNull, Num(5), Str(s_ab)}

MapDocs ==
  {Arr(<<Str(s_str), Str(s_i32), Num(0)>>), Arr(<<Str(s_str), Str(s_i32), Num(0), Obj(<<>>), Num(0)>>)}
  \cup {Arr(<<kt, vt, c, data>>) : kt \in {Str(s_str), Str(s_i32), Str(s_tf), Str(s_x)},
                                   vt \in {Str(s_i32), Str(s_str)}, c \in CountDocs, data \in EntryDocs}

\* what stands at a field id: {tag: value}, and malformed ones
InnerDocs ==
  {Obj(<<<<t, v>>>>) : t \in {s_i32, s_str, s_tf, s_x}, v \in ItemDocs}
  \cup {Obj(<<<<s_lst, v>>>>) : v \in {Arr(<<Str(s_i32), Num(1), Num(1)>>), Arr(<<Str(s_i32), Num(2), Num(1)>>), Num(5), Str(s_ab)}}
  \cup {Obj(<<<<s_set, v>>>>) : v \in {Arr(<<Str(s_str), Num(1), Str(s_a)>>), Obj(<<>>)}}
  \cup {Obj(<<<<s_map, v>>>>) : v \in {Arr(<<Str(s_str), Str(s_i32), Num(1), Obj(<<<<s_a, Num(1)>>>>)>>),
                                       Arr(<<Str(s_i32), Str(s_i32), Num(1), Obj(<<<<s_1, Num(1)>>>>)>>), Str(s_abcd)}}
  \cup {Obj(<<<<s_rec, v>>>>) : v \in {Obj(<<>>), Obj(<<<<s_1, Obj(<<<<s_i32, Num(1)>>>>)>>>>), JNull, Num(5), Bool(TRUE)}}
  \cup {Obj(<<>>), Obj(<<<<s_i32, Num(1)>>, <<s_str, Str(s_a)>>>>), JNull, Num(1), Str(s_a)}

PlainInnerDocs == {Obj(<<<<s_i32, Num(1)>>>>), Obj(<<<<s_str, Str(s_a)>>>>), Obj(<<<<s_i8, Str(s_a)>>>>)}
FieldIds == {s_1, s_2, s_01, s_x}

StructDocs ==
  {Obj(<<>>)}
  \cup {Obj(<<<<id, inner>>>>) : id \in FieldIds, inner \in InnerDocs}
  \cup {Obj(ps) : ps \in Objects(MaxItems, FieldIds, PlainInnerDocs)}

\* message frames: arrays of 5, of 4 and of 6, and objects with a length of 5
Versions == {Num(0), Num(VERSION), Num(2), Str(s_1), Str(s_2), Bool(TRUE), JNull, Arr(<<Num(VERSION)>>)}
Payloads5 ==
  {Obj(<<>>), Obj(<<<<s_1, Obj(<<<<s_i32, Num(1)>>>>)>>>>), Obj(<<<<s_1, Obj(<<<<s_x, Num(1)>>>>)>>>>),
   Obj(<<<<s_1, Obj(<<<<s_lst, Num(5)>>>>)>>>>), JNull, Num(5), Bool(TRUE), Str(s_ab)}
FrameDocs ==
  {Arr(<<ver, Str(s_ping), Num(1), Num(2), payload>>) : ver \in Versions, payload \in Payloads5}
  \cup {Arr(<<ver, Str(s_ping), Num(1), Num(2)>>) : ver \in {Num(VERSION), Num(2)}}
  \cup {Arr(<<ver, Str(s_ping), Num(1), Num(2), Obj(<<>>), JNull>>) : ver \in {Num(VERSION), Num(2)}}
  \cup {Obj(<<<<s_0, ver>>, <<s_1, Str(s_ping)>>, <<s_2, Num(1)>>, <<<<"3">>, Num(2)>>, <<<<"4">>, Obj(<<>>)>>, <<s_length, len>>>>) :
          ver \in {Num(VERSION), Num(2)}, len \in {Num(5), Str(<<"5">>), Num(4)}}
  \cup {Obj(<<<<s_length, Num(5)>>>>)}

Docs == ScalarDocs \cup ListDocs \cup MapDocs \cup StructDocs \cup FrameDocs
Texts == {Text(doc) : doc \in Docs} \cup {Garbage}

(***************************************************************************)
(* The state: one call of the library at a time.                           *)
(***************************************************************************)
VARIABLES
  value,   \* the tagged value the application holds, or null
  inbox,   \* the text transport.read() yields, or NoText
  pc,      \* "idle", "reading" and "writing" (the transport is pending), "serialized", "back", "done"
  op,      \* the operation called
  arg,     \* its arguments
  json,    \* the JSON-compatible structure serializeValue returned
  ret,     \* what the call returned, or the exception it raised
  reads,   \* the calls of transport.read()
  outbox,  \* the texts given to transport.write(), in order
  fault    \* the failure the transport raised, or null

vars == <<value, inbox, pc, op, arg, json, ret, reads, outbox, fault>>

\* the types asked of getField and given to deserializeValue
AskedTypes == {TType_BOOL, TType_I32, TType_STRING, TType_STRUCT}
DecodeTypes ==
  {TType_VOID, TType_BOOL, TType_I08, TType_I32, TType_DOUBLE, TType_STRING, TType_UTF8,
   TType_LIST, TType_MAP, TType_SET, TType_STRUCT}
\* the tags given to typeString and the values given to typeOfString
TagInputs == {Num(t) : t \in 0..(TType_UTF16 + 1)}
TagStringInputs ==
  {Str(s) : s \in {s_tf, s_i8, s_i16, s_i32, s_i64, s_dbl, s_str, s_lst, s_map, s_set, s_rec}}
  \cup {Str(s_empty), Str(s_x), Str(s_1), Str(<<"T", "F">>), Str(<<"i", "0", "8">>), Str(<<"u", "t", "f", "8">>),
        Num(TType_BOOL), Bool(TRUE), JNull, Undefined}

\* the name, kind and sequence id of the messages written
MessageFrames ==
  {<<Str(s_ping), Num(TMessageType_CALL), Num(2)>>, <<Str(s_empty), Num(TMessageType_ONEWAY), Num(0)>>}
\* what a transport rejects a read or a write with
TransportErrors == {TTransportException(TTransportExceptionType_UNKNOWN), [name |-> "Error"]}

Init ==
  /\ pc = "idle"
  /\ op = "none"
  /\ arg = <<>>
  /\ json = Undefined
  /\ ret = Undefined
  /\ reads = 0
  /\ outbox = <<>>
  /\ fault = JNull
  /\ \/ value \in Values /\ inbox = NoText
     \/ value = JNull /\ inbox \in Texts \cup {NoText}

Return(name, args, result) ==
  /\ pc' = "done"
  /\ op' = name
  /\ arg' = args
  /\ ret' = result
  /\ UNCHANGED <<value, inbox, json, reads, outbox, fault>>

\* value.booleanValue, value.numberValue, ...
CallAccessor(accessor) ==
  /\ pc = "idle"
  /\ value # JNull
  /\ Return("accessor", <<accessor>>, Accessor(value, accessor))

\* value.getField(id, fieldType) of a struct
CallGetField(id, fieldType) ==
  /\ pc = "idle"
  /\ value # JNull
  /\ value.k = "TStruct"
  /\ Return("getField", <<id, fieldType>>, getField(value, id, fieldType))

\* the tag tables, called before anything is built or received
CallTypeString(type) ==
  /\ pc = "idle"
  /\ value = JNull
  /\ inbox = NoText
  /\ Return("typeString", <<type>>, typeString(type))

CallTypeOfString(type) ==
  /\ pc = "idle"
  /\ value = JNull
  /\ inbox = NoText
  /\ Return("typeOfString", <<type>>, typeOfString(type))

\* typeOfString(typeString(type)) and typeString(typeOfString(type))
CallTypeOfStringBack ==
  /\ pc = "done"
  /\ op = "typeString"
  /\ ~IsThrow(ret)
  /\ pc' = "back"
  /\ ret' = typeOfString(ret)
  /\ UNCHANGED <<value, inbox, op, arg, json, reads, outbox, fault>>

CallTypeStringBack ==
  /\ pc = "done"
  /\ op = "typeOfString"
  /\ ~IsThrow(ret)
  /\ pc' = "back"
  /\ ret' = typeString(ret)
  /\ UNCHANGED <<value, inbox, op, arg, json, reads, outbox, fault>>

\* serializeValue(value), then deserializeValue(value.valueType, the result)
Serialize ==
  /\ pc = "idle"
  /\ inbox = NoText
  /\ pc' = "serialized"
  /\ op' = "serializeValue"
  /\ json' = serializeValue(value)
  /\ ret' = json'
  /\ UNCHANGED <<value, inbox, arg, reads, outbox, fault>>

DeserializeBack ==
  /\ pc = "serialized"
  /\ value # JNull
  /\ ~IsThrow(json)
  /\ Return("roundTrip", <<valueTypeOf(value)>>, deserializeValue(valueTypeOf(value), json))

\* deserializeValue(valueType, data) of a received document
Deserialize(valueType) ==
  /\ pc = "idle"
  /\ inbox.k = "text"
  /\ Return("deserializeValue", <<valueType>>, deserializeValue(valueType, inbox.v))

\* readMessage() and readStruct(): transport.read(), then the callback
Read(name) ==
  /\ pc = "idle"
  /\ inbox # NoText
  /\ pc' = "reading"
  /\ op' = name
  /\ reads' = reads + 1
  /\ UNCHANGED <<value, inbox, arg, json, ret, outbox, fault>>

ReadMessageThen ==
  /\ pc = "reading"
  /\ op = "readMessage"
  /\ pc' = "done"
  /\ ret' = readMessageThen(inbox)
  /\ UNCHANGED <<value, inbox, op, arg, json, reads, outbox, fault>>

ReadStructThen ==
  /\ pc = "reading"
  /\ op = "readStruct"
  /\ pc' = "done"
  /\ ret' = readStructThen(inbox)
  /\ UNCHANGED <<value, inbox, op, arg, json, reads, outbox, fault>>

\* the transport rejects the pending read, and the promise of readMessage
\* or readStruct rejects with it: the callback of then() is not run
ReadFails(e) ==
  /\ pc = "reading"
  /\ pc' = "done"
  /\ fault' = e
  /\ ret' = Throw(e)
  /\ UNCHANGED <<value, inbox, op, arg, json, reads, outbox>>

\* Write that gives the transport a text before it looks at data
WriteFirst(name, args, data) ==
  /\ op' = name
  /\ arg' = args
  /\ json' = data
  /\ outbox' = Append(outbox, JSONStringify(IF IsThrow(data) THEN JNull ELSE data))
  /\ IF IsThrow(data) THEN pc' = "done" /\ ret' = data ELSE pc' = "writing" /\ ret' = ret
  /\ UNCHANGED <<value, inbox, reads, fault>>

\* a call that has built data: an exception ends it, else the text of data is
\* given to transport.write() and the promise of the write is pending
Write(name, args, data) ==
  /\ op' = name
  /\ arg' = args
  /\ json' = data
  /\ IF IsThrow(data)
     THEN pc' = "done" /\ ret' = data /\ outbox' = outbox
     ELSE pc' = "writing" /\ ret' = ret /\ outbox' = Append(outbox, JSONStringify(data))
  /\ UNCHANGED <<value, inbox, reads, fault>>

\* writeMessage(new TMessage(name, messageType, seqid, value))
WriteMessage(name, messageType, seqid) ==
  /\ pc = "idle"
  /\ inbox = NoText
  /\ Write("writeMessage", <<name, messageType, seqid>>, writeMessage(TMessage(name, messageType, seqid, value)))

\* writeStruct(value) of a struct
WriteStruct ==
  /\ pc = "idle"
  /\ inbox = NoText
  /\ value.k = "TStruct"
  /\ Write("writeStruct", <<>>, writeStruct(value))

\* the transport resolves the pending write
WriteResolves ==
  /\ pc = "writing"
  /\ pc' = "done"
  /\ ret' = Undefined
  /\ UNCHANGED <<value, inbox, op, arg, json, reads, outbox, fault>>

\* the transport rejects the pending write
WriteFails(e) ==
  /\ pc = "writing"
  /\ pc' = "done"
  /\ fault' = e
  /\ ret' = Throw(e)
  /\ UNCHANGED <<value, inbox, op, arg, json, reads, outbox>>

\* readMessage() or readStruct() on a transport that yields the text written
ReadWritten ==
  /\ pc = "done"
  /\ op \in {"writeMessage", "writeStruct"}
  /\ fault = JNull
  /\ outbox # <<>>
  /\ inbox' = outbox[Len(outbox)]
  /\ pc' = "reading"
  /\ op' = (IF op = "writeMessage" THEN "readMessage" ELSE "readStruct")
  /\ reads' = reads + 1
  /\ UNCHANGED <<value, arg, json, ret, outbox, fault>>

Next ==
  \/ \E accessor \in AccessorNames : CallAccessor(accessor)
  \/ \E id \in 0..MaxId, fieldType \in AskedTypes : CallGetField(id, fieldType)
  \/ \E type \in TagInputs : CallTypeString(type)
  \/ \E type \in TagStringInputs : CallTypeOfString(type)
  \/ CallTypeOfStringBack
  \/ CallTypeStringBack
  \/ Serialize
  \/ DeserializeBack
  \/ \E valueType \in DecodeTypes : Deserialize(valueType)
  \/ \E name \in {"readMessage", "readStruct"} : Read(name)
  \/ ReadMessageThen
  \/ ReadStructThen
  \/ \E e \in TransportErrors : ReadFails(e)
  \/ \E frame \in MessageFrames : WriteMessage(frame[1], frame[2], frame[3])
  \/ WriteStruct
  \/ WriteResolves
  \/ \E e \in TransportErrors : WriteFails(e)
  \/ ReadWritten

Spec == Init /\ [][Next]_vars

(***************************************************************************)
(* What the claims speak of.                                               *)
(***************************************************************************)
\* the 11 tags and the 11 wire tag strings of the table
TableTypes ==
  {TType_BOOL, TType_I08, TType_I16, TType_I32, TType_I64, TType_DOUBLE, TType_STRING,
   TType_LIST, TType_MAP, TType_SET, TType_STRUCT}
WireTags == {s_tf, s_i8, s_i16, s_i32, s_i64, s_dbl, s_str, s_lst, s_map, s_set, s_rec}

\* a payload of the primitive kind of its tag, no NaN, or absent
WellTyped(base) ==
  \/ isNull(base.value)
  \/ base.valueType = TType_BOOL /\ base.value.k = "boolean"
  \/ base.valueType \in NumberTypes /\ base.value.k = "number"
  \/ base.valueType \in StringTypes /\ base.value.k = "string"

\* a tree of scalars, lists, sets, maps and structs with tags of the table,
\* whose children are absent or have the declared tag
RECURSIVE WellFormed(_)
Conforms(child, type) == child = JNull \/ (valueTypeOf(child) = type /\ WellFormed(child))
WellFormed(v) ==
  CASE v.k = "TBase" -> v.valueType \in TableTypes /\ WellTyped(v)
    [] v.k \in {"TList", "TSet"} ->
         v.itemType \in TableTypes /\ \A i \in 1..Len(v.items) : Conforms(v.items[i], v.itemType)
    [] v.k = "TMap" ->
         /\ v.keyType \in TableTypes
         /\ v.itemType \in TableTypes
         /\ \A i \in 1..Len(v.items) : Conforms(v.items[i].key, v.keyType) /\ Conforms(v.items[i].value, v.itemType)
    [] v.k = "TStruct" ->
         \A i \in 1..Len(v.fields) : v.fields[i][2].fieldType \in TableTypes /\ Conforms(v.fields[i][2].value, v.fields[i][2].fieldType)
    [] OTHER -> FALSE

\* structural equality takes a null payload and an undefined one for the same
RECURSIVE Normal(_)
Normal(v) ==
  CASE v.k = "TBase" -> TBase(v.valueType, IF v.value = JNull THEN Undefined ELSE v.value)
    [] v.k = "TList" -> TList(v.itemType, [i \in 1..Len(v.items) |-> Normal(v.items[i])])
    [] v.k = "TSet" -> TSet(v.itemType, [i \in 1..Len(v.items) |-> Normal(v.items[i])])
    [] v.k = "TMap" ->
         TMap(v.keyType, v.itemType, [i \in 1..Len(v.items) |-> TMapEntry(Normal(v.items[i].key), Normal(v.items[i].value))])
    [] v.k = "TStruct" ->
         TStruct([i \in 1..Len(v.fields) |-> <<v.fields[i][1], TField(v.fields[i][2].fieldType, Normal(v.fields[i][2].value))>>])
    [] OTHER -> v
SameValue(a, b) == Normal(a) = Normal(b)

\* C1: for every well-formed tree v, deserializeValue(v.valueType,
\* serializeValue(v)) is structurally equal to v.
C1_RoundTrip ==
  (pc = "done" /\ op = "roundTrip" /\ WellFormed(value)) => SameValue(ret, value)

\* the concrete variants and the accessor that matches each
IsVariant(v) ==
  \/ v.k \in {"TList", "TSet", "TMap", "TStruct"}
  \/ v.k = "TBase" /\ v.valueType \in {TType_BOOL} \cup NumberTypes \cup StringTypes
OwnAccessor(v) ==
  CASE v.k = "TList" -> "listValue"
    [] v.k = "TSet" -> "setValue"
    [] v.k = "TMap" -> "mapValue"
    [] v.k = "TStruct" -> "structValue"
    [] v.valueType = TType_BOOL -> "booleanValue"
    [] v.valueType \in NumberTypes -> "numberValue"
    [] OTHER -> "stringValue"

\* C2: of the seven accessors of a concrete variant the one that matches its
\* valueType succeeds, and each of the other six raises a TProtocolException
\* of kind INVALID_DATA.
C2_AccessorExclusivity ==
  (pc = "done" /\ op = "accessor" /\ IsVariant(value)) =>
    /\ IF arg[1] = OwnAccessor(value) THEN ~IsThrow(ret) ELSE IsProtocolFailure(ret, INVALID_DATA)
    /\ Cardinality({a \in AccessorNames : ~IsThrow(Accessor(value, a))}) = 1

\* a 64 bit integer scalar gives its number
C2_Witness ==
  /\ pc = "done" /\ op = "accessor" /\ arg[1] = "numberValue"
  /\ value = TBase(TType_I64, Num(1)) /\ ret = Num(1)

\* C3: getField(id, type) returns the stored field exactly when a field of
\* that id is present and its fieldType is type; else it returns null, and
\* it never raises.
C3_GetField ==
  (pc = "done" /\ op = "getField") =>
    LET name == NumToStr(arg[1])
    IN IF HasProp(value.fields, name) /\ PropOf(value.fields, name).fieldType = arg[2]
       THEN ret = PropOf(value.fields, name)
       ELSE ret = JNull

\* a field that is present with another type is not returned
C3_Witness ==
  /\ pc = "done" /\ op = "getField" /\ ret = JNull
  /\ HasProp(value.fields, NumToStr(arg[1]))
  /\ PropOf(value.fields, NumToStr(arg[1])).fieldType # arg[2]

\* C4: typeOfString(typeString(t)) = t for the 11 tags,
\* typeString(typeOfString(s)) = s for the 11 wire tag strings, and any other
\* tag or string raises a protocol failure of kind INVALID_DATA.
C4_TagBijection ==
  /\ (pc = "done" /\ op = "typeString") =>
       IF arg[1].v \in TableTypes THEN ret.k = "string" /\ ret.v \in WireTags
       ELSE IsProtocolFailure(ret, INVALID_DATA)
  /\ (pc = "done" /\ op = "typeOfString") =>
       IF arg[1].k = "string" /\ arg[1].v \in WireTags THEN ret.k = "number" /\ ret.v \in TableTypes
       ELSE IsProtocolFailure(ret, INVALID_DATA)
  /\ (pc = "back" /\ op \in {"typeString", "typeOfString"}) => ret = arg[1]

\* the tag of a struct comes back from its wire tag string
C4_Witness ==
  pc = "back" /\ op = "typeString" /\ arg[1] = Num(TType_STRUCT) /\ ret = Num(TType_STRUCT)

\* C5: readMessage raises INVALID_DATA for every parsed input that is not an
\* array of exactly 5 elements, whatever stands where the version would.
C5_MalformedEnvelope ==
  (pc = "done" /\ op = "readMessage" /\ fault = JNull /\ inbox.k = "text" /\ ~(inbox.v.k = "array" /\ Len(inbox.v.v) = 5)) =>
    IsProtocolFailure(ret, INVALID_DATA)

\* C6: for every frame of 5 elements readMessage raises BAD_VERSION when the
\* first element is not the number 1, and decodes the payload only when it is.
C6_BadVersion ==
  (pc = "done" /\ op = "readMessage" /\ fault = JNull /\ inbox.k = "text" /\ inbox.v.k = "array" /\ Len(inbox.v.v) = 5) =>
    IF inbox.v.v[1] = Num(VERSION)
    THEN ret = deserializeValue(TType_STRUCT, inbox.v.v[5]) \/ (ret.k = "TMessage" /\ ret.value = deserializeValue(TType_STRUCT, inbox.v.v[5]))
    ELSE IsProtocolFailure(ret, BAD_VERSION)

\* the count slot of a list, set or map array
CountSlot(valueType, doc) == IF valueType = TType_MAP THEN doc.v[3] ELSE doc.v[2]

\* C7: a list, set or map decodes only if the declared count is a number
\* equal to the number of decoded items; else INVALID_DATA is raised.
C7_SizeMismatch ==
  (pc = "done" /\ op = "deserializeValue" /\ arg[1] \in {TType_LIST, TType_SET, TType_MAP}) =>
    /\ ~IsThrow(ret) => CountSlot(arg[1], inbox.v) = Num(Len(ret.items))
    /\ (inbox.v.k = "array" /\ IsThrow(ret)) => IsProtocolFailure(ret, INVALID_DATA)

\* C8: a JSON value that is not absent decodes under a scalar tag only when
\* its JSON type is that of the tag (boolean, number, string); any other JSON
\* type raises INVALID_DATA and is never coerced.
JsonTypeOf(valueType) ==
  IF valueType = TType_BOOL THEN "boolean" ELSE IF valueType \in NumberTypes THEN "number" ELSE "string"
C8_StrictScalar ==
  (pc = "done" /\ op = "deserializeValue" /\ arg[1] \in {TType_BOOL} \cup NumberTypes \cup StringTypes /\ ~isNull(inbox.v)) =>
    IF inbox.v.k = JsonTypeOf(arg[1]) THEN ret = TBase(arg[1], inbox.v)
    ELSE IsProtocolFailure(ret, INVALID_DATA)

\* a map array of known tags whose count is the number of its entries and
\* whose entry values decode with the value tag
WellFormedMapDoc(doc) ==
  /\ doc.k = "array" /\ Len(doc.v) = 4
  /\ ~IsThrow(typeOfString(doc.v[1])) /\ ~IsThrow(typeOfString(doc.v[2]))
  /\ doc.v[4].k = "object"
  /\ doc.v[3] = Num(Len(doc.v[4].v))
  /\ \A i \in 1..Len(doc.v[4].v) : ~IsThrow(deserializeValue(typeOfString(doc.v[2]).v, doc.v[4].v[i][2]))

\* C9: decoding a well-formed map array succeeds whatever the declared key
\* tag, with one entry for each property: the name as a string-typed value
\* and the property value decoded with the declared value tag.
C9_MapKeys ==
  (pc = "done" /\ op = "deserializeValue" /\ arg[1] = TType_MAP /\ WellFormedMapDoc(inbox.v)) =>
    /\ ~IsThrow(ret)
    /\ Len(ret.items) = Len(inbox.v.v[4].v)
    /\ \A i \in 1..Len(ret.items) :
         /\ ret.items[i].key = TBase(TType_STRING, Str(inbox.v.v[4].v[i][1]))
         /\ ret.items[i].value = deserializeValue(typeOfString(inbox.v.v[2]).v, inbox.v.v[4].v[i][2])

\* an object whose every property is an object of one known wire tag
OneTagEach(doc) ==
  /\ doc.k = "object"
  /\ \A i \in 1..Len(doc.v) :
       /\ doc.v[i][2].k = "object" /\ Len(doc.v[i][2].v) = 1
       /\ doc.v[i][2].v[1][1] \in WireTags
       /\ \A j \in 1..Len(doc.v) : parseInt(doc.v[j][1]) = parseInt(doc.v[i][1]) => j = i

\* C10: decoding under the STRUCT tag, and readStruct, raise INVALID_DATA for
\* every input that is no object (a number, true, a string); an object gives
\* one field for each property id, of the tag its inner key names, holding
\* the inner value decoded with that tag.
C10_StructValidation ==
  ((pc = "done" /\ fault = JNull /\ inbox.k = "text") /\ (op = "readStruct" \/ (op = "deserializeValue" /\ arg[1] = TType_STRUCT))) =>
    /\ inbox.v.k \notin {"object", "array"} => IsProtocolFailure(ret, INVALID_DATA)
    /\ (OneTagEach(inbox.v) /\ ~IsThrow(ret)) =>
         /\ Len(ret.fields) = Len(inbox.v.v)
         /\ \A i \in 1..Len(inbox.v.v) :
              LET inner == inbox.v.v[i][2].v[1]
                  fieldType == typeOfString(Str(inner[1])).v
              IN Get(Obj(ret.fields), ToStr(parseInt(inbox.v.v[i][1]))) = TField(fieldType, deserializeValue(fieldType, inner[2]))

\* the tag a of the string family in place of a tag of that family; BYTE and
\* I08 are one number, so that family needs no replacement
Alias(type, a) == IF type \in StringTypes THEN a ELSE type

\* the tree v with every tag of the string family replaced by a: the tags of
\* scalars, the item tags, the key and value tags and the field types
RECURSIVE Retag(_, _)
Retag(v, a) ==
  CASE v.k = "TBase" -> TBase(Alias(v.valueType, a), v.value)
    [] v.k = "TList" -> TList(Alias(v.itemType, a), [i \in 1..Len(v.items) |-> Retag(v.items[i], a)])
    [] v.k = "TSet" -> TSet(Alias(v.itemType, a), [i \in 1..Len(v.items) |-> Retag(v.items[i], a)])
    [] v.k = "TMap" ->
         TMap(Alias(v.keyType, a), Alias(v.itemType, a),
              [i \in 1..Len(v.items) |-> TMapEntry(Retag(v.items[i].key, a), Retag(v.items[i].value, a))])
    [] v.k = "TStruct" ->
         TStruct([i \in 1..Len(v.fields) |->
                    <<v.fields[i][1], TField(Alias(v.fields[i][2].fieldType, a), Retag(v.fields[i][2].value, a))>>])
    [] OTHER -> v

\* C11: serializeValue gives the same result (the same JSON with the same
\* wire tag strings, or the same failure) for a value and for the value with
\* its string-family tags replaced by any of STRING, UTF7, UTF8, UTF16; and
\* BYTE and I08 are one tag.
C11_AliasEncoding ==
  /\ TType_BYTE = TType_I08
  /\ pc = "serialized" => \A a \in StringTypes : serializeValue(Retag(value, a)) = json

\* a scalar of the boolean, a numeric or the string family
IsScalar(v) == v.k = "TBase" /\ v.valueType \in {TType_BOOL} \cup NumberTypes \cup StringTypes

\* the tree v holds, at any depth, a scalar whose present payload is not of
\* the primitive kind of its tag or is NaN
RECURSIVE HasBadScalar(_)
HasBadScalar(v) ==
  CASE v.k = "TBase" -> IsScalar(v) /\ ~WellTyped(v)
    [] v.k \in {"TList", "TSet"} -> \E i \in 1..Len(v.items) : HasBadScalar(v.items[i])
    [] v.k = "TMap" -> \E i \in 1..Len(v.items) : HasBadScalar(v.items[i].key) \/ HasBadScalar(v.items[i].value)
    [] v.k = "TStruct" -> \E i \in 1..Len(v.fields) : HasBadScalar(v.fields[i][2].value)
    [] OTHER -> FALSE

\* C12: serializing a tree that holds, at any depth, a scalar with an
\* ill-typed or NaN payload raises INVALID_DATA; a scalar with an absent
\* payload serializes to null, a BOOL to 1 or 0, and any other well-typed
\* payload to itself.
C12_PayloadChecks ==
  pc = "serialized" =>
    /\ HasBadScalar(value) => IsProtocolFailure(json, INVALID_DATA)
    /\ (IsScalar(value) /\ WellTyped(value)) =>
         json = IF isNull(value.value) THEN JNull
                ELSE IF value.valueType = TType_BOOL THEN (IF value.value = Bool(TRUE) THEN Num(1) ELSE Num(0))
                ELSE value.value

\* a NaN two containers deep makes the whole serialization fail
C12_Witness ==
  /\ pc = "serialized"
  /\ value = TList(TType_LIST, <<TList(TType_I32, <<TBase(TType_DOUBLE, NaN)>>)>>)
  /\ IsProtocolFailure(json, INVALID_DATA)

\* C13: when transport.read() yields JSON text, readMessage and readStruct
\* return a decoded TMessage or TStruct, or raise a TProtocolException of
\* kind INVALID_DATA or BAD_VERSION, and nothing else, whatever the shape of
\* the input.
C13_ReadOutcome ==
  (pc = "done" /\ op \in {"readMessage", "readStruct"} /\ fault = JNull /\ inbox.k = "text") =>
    IF IsThrow(ret)
    THEN IsProtocolFailure(ret, INVALID_DATA) \/ IsProtocolFailure(ret, BAD_VERSION)
    ELSE IF op = "readMessage" THEN ret.k = "TMessage" /\ ret.value.k = "TStruct" ELSE ret.k = "TStruct"

\* C14: writeMessage of a message whose payload is a well-formed struct hands
\* the transport one text, the JSON of [1, name, messageType, seqid,
\* serializeValue(payload)]; readMessage on a transport that yields that text
\* returns a TMessage of the same name, messageType and seqid whose value is
\* structurally equal to the payload.
C14_MessageRoundTrip ==
  (pc = "done" /\ op = "readMessage" /\ outbox # <<>> /\ fault = JNull /\ value.k = "TStruct" /\ WellFormed(value)) =>
    /\ Len(outbox) = 1
    /\ outbox[1] = Text(Arr(<<Num(1), arg[1], arg[2], arg[3], serializeValue(value)>>))
    /\ ret.k = "TMessage"
    /\ ret.name = arg[1] /\ ret.messageType = arg[2] /\ ret.seqid = arg[3]
    /\ SameValue(ret.value, value)

\* C15: in the output of every list, set and map that serializes without
\* error the count slot is the number of entries the output holds: the
\* elements after the count of a list or set, the properties of the entry
\* object of a map, also when two keys of the map serialize to one name.
C15_EmittedCount ==
  (pc = "serialized" /\ ~IsThrow(json) /\ value.k \in {"TList", "TSet", "TMap"}) =>
    IF value.k = "TMap"
    THEN Len(json.v) = 4 /\ json.v[3] = Num(Len(Keys(json.v[4])))
    ELSE json.v[2] = Num(Len(json.v) - 2)

WriteOps == {"writeMessage", "writeStruct"}
ReadOps == {"readMessage", "readStruct"}

\* what holds of the transport in every state of a call: a write whose value
\* does not serialize has raised that failure and sent nothing, any other
\* write has sent one text; a read has called transport.read() once, has no
\* result while the transport is pending, and raises the failure of the
\* transport as it is
TransportUse ==
  /\ (op \in WriteOps /\ outbox = <<>>) =>
       IsThrow(serializeValue(value)) /\ pc = "done" /\ ret = serializeValue(value)
  /\ (op \in WriteOps /\ ~IsThrow(serializeValue(value))) => Len(outbox) = 1
  /\ (op \in WriteOps /\ IsThrow(serializeValue(value))) => outbox = <<>>
  /\ (op \in ReadOps) => reads = 1
  /\ (op \in ReadOps /\ pc = "reading") => ~IsThrow(ret) /\ ret = Undefined
  /\ (op \in ReadOps /\ pc = "done" /\ fault # JNull) => ret = Throw(fault)

\* the steps that touch the transport or give a read its result: a text is
\* sent only by the step of the call itself, and the result of a read comes
\* only out of the pending read, from the text the transport yielded
TransportStep ==
  /\ outbox' # outbox => (pc = "idle" /\ op' \in WriteOps /\ ~IsThrow(json') /\ outbox' = <<JSONStringify(json')>>)
  /\ reads' # reads => (op' \in ReadOps /\ pc' = "reading" /\ reads' = reads + 1)
  /\ (op' \in ReadOps /\ ret' # ret) =>
       /\ pc = "reading" /\ pc' = "done"
       /\ \/ fault' # JNull /\ ret' = Throw(fault')
          \/ fault' = JNull /\ ret' = (IF op = "readMessage" THEN readMessageThen(inbox) ELSE readStructThen(inbox))

\* C16: writeMessage and writeStruct serialize the whole value before the
\* transport is touched: if serialization raises, write is never called and
\* nothing is sent, else write is called exactly once.  readMessage and
\* readStruct call read exactly once, decode only after it yields text, and
\* a failure of the read reaches the caller unchanged.
C16_TransportOrder == [](TransportUse) /\ [][TransportStep]_vars

\* a writeMessage whose payload does not serialize has raised and sent nothing
C16_Witness ==
  /\ pc = "done" /\ op = "writeMessage" /\ outbox = <<>>
  /\ value = TStruct(<<<<s_1, TField(TType_DOUBLE, TBase(TType_DOUBLE, NaN))>>>>)
  /\ IsProtocolFailure(ret, INVALID_DATA)

====
